---- MODULE Spec2Model ----
(***************************************************************************)
(* Model of the gaze viewer of sample_viewer/js/view_gaze.js: the playback *)
(* state of gaze_viewer, its public functions and event handlers, and the  *)
(* pending window.setTimeout callbacks of render_and_schedule.             *)
(*                                                                         *)
(* JavaScript runs every handler to completion, so each handler is one     *)
(* action.  Wall-clock time is the variable now (milliseconds); it only    *)
(* advances between handlers (action Tick), so the two new Date() reads of *)
(* play() and of the render_and_schedule() it calls see the same time.     *)
(***************************************************************************)
EXTENDS Integers, Sequences, FiniteSets

\* ------------------------------------------------------------------ bounds
MaxTicks == 3         \* clock advances the model follows
MaxTimers == 2        \* pending setTimeout callbacks the model follows
MaxLate == 1          \* ticks a due callback may be late (unattended run)

\* --------------------------------------------------- construction (spec.*)
fps == 2                              \* spec.fps
schedule_ms == 1000 \div fps          \* my.schedule_ms
TickMs == schedule_ms                 \* granularity of the modelled clock
MaxTime == MaxTicks * TickMs

\* --------------------------------------------------------- spec.view_data
samples_per_second == 30
stims == <<"stimA", "stimB">>

Absent == <<>>                        \* a sample that was not recorded
                                      \* (null), falsy like undefined
Pt(i) == <<i, i + 1>>

\* viewdata[stim_name][viewer_name] is an array of viewings, each an array
\* of points.  stimB has no entry in viewdata (my.stim_data is undefined),
\* which is modelled as the object with no viewers.
viewdata ==
  [s \in {"stimA", "stimB"} |->
     CASE s = "stimA" ->
            [v \in {"v1", "v2"} |->
               IF v = "v1"
               THEN << [i \in 1..90 |-> Pt(i)] >>
               ELSE << [i \in 1..40 |-> IF i % 2 = 0 THEN Absent ELSE Pt(i)],
                       [i \in 1..10 |-> Pt(2 * i)] >>]
       [] s = "stimB" -> [v \in {} |-> << >>]]

\* Values the speed <select> can hand to handle_speed_change; every option
\* is a numeric literal, so parseFloat never yields NaN.
SpeedOptions == {"1", "2", "0", "-1"}

\* parseFloat on the option strings.
ParseFloat(s) ==
  CASE s = "1" -> 1
    [] s = "2" -> 2
    [] s = "0" -> 0
    [] s = "-1" -> 0 - 1

\* Arguments callers pass to pub.set_stim_index: the valid indices and the
\* first one past the range.
StimIndexInputs == 0..Len(stims)

VARIABLES
  now,                 \* new Date(), in ms
  play_started_at,     \* my.play_started_at
  point_index,         \* my.point_index
  point_index_offset,  \* my.point_index_offset
  playing,             \* my.playing
  playback_speed,      \* my.playback_speed
  stim_index,          \* my.stim_index
  stim_name,           \* my.stim_name
  gaze_len,            \* my.gaze_len
  timers,              \* due times of the pending setTimeout callbacks
  canvas,              \* what the last drawing call left on the canvas
  error,               \* exception thrown by the last call, or "none"
  session_intact       \* history: no stimulus selection and no
                       \* overdraw_all_frames since the last play()

vars == <<now, play_started_at, point_index, point_index_offset, playing,
          playback_speed, stim_index, stim_name, gaze_len, timers, canvas,
          error, session_intact>>

\* ---------------------------------------------------------------- helpers
Max(S) == CHOOSE m \in S : \A x \in S : x <= m

\* my.stim_data, always viewdata[my.stim_name]
stim_data == viewdata[stim_name]

\* A slip of lines 68-72: the viewings of a viewer counted, their lengths
\* not looked at.
GazeLenOfViewings(d) == Max({0} \cup {Len(d[v]) : v \in DOMAIN d})

\* gaze_len(): the longest viewing of any viewer of the data d
GazeLenOf(d) ==
  Max({0} \cup UNION {{Len(d[v][k]) : k \in 1..Len(d[v])} : v \in DOMAIN d})

Min(a, b) == IF a <= b THEN a ELSE b

\* view_arrays[k][i] of line 138: the entry at the JavaScript index i, which
\* is undefined (falsy, like an absent sample) outside the array.
ArrayAt(arr, i) == IF i \in 0..(Len(arr) - 1) THEN arr[i + 1] ELSE Absent

\* A slip of line 139: the test of p left out, every entry drawn.
DrawCurrentPointsUnchecked(d, i) ==
  UNION {{[viewer |-> v, viewing |-> k, p |-> ArrayAt(d[v][k], i)] :
            k \in 1..Len(d[v])} : v \in DOMAIN d}

\* draw_current_points(): the discs drawn for the index i of the data d, one
\* for each viewing of each viewer that has a point there.
DrawCurrentPoints(d, i) ==
  UNION {{[viewer |-> v, viewing |-> k, p |-> ArrayAt(d[v][k], i)] :
            k \in {j \in 1..Len(d[v]) : ArrayAt(d[v][j], i) # Absent}} :
         v \in DOMAIN d}

\* The canvas after renderer.clear(), after draw_current_frame() at index i,
\* and after overdraw_all_frames() has drawn n frames over each other:
\* frames lists the indices drawn since the canvas was last cleared, discs
\* the discs on it.
Cleared == [kind |-> "clear", index |-> 0, frames |-> << >>, discs |-> {}]
Frame(i) ==
  [kind |-> "frame", index |-> i, frames |-> <<i>>,
   discs |-> DrawCurrentPoints(stim_data, i)]
OverdrawnDiscs ==
  [name \in {stims[s] : s \in DOMAIN stims} |->
     [n \in 0..GazeLenOf(viewdata[name]) |->
        UNION {DrawCurrentPoints(viewdata[name], j) : j \in 0..(n - 1)}]]
Overdrawn(n) ==
  [kind |-> "overdraw", index |-> n, frames |-> [j \in 1..n |-> j - 1],
   discs |-> OverdrawnDiscs[stim_name][n]]

\* A slip of lines 82-85: the multiplier left out of the product.
NextIndexNoSpeed(offset, elapsed_ms, speed) ==
  offset + ((elapsed_ms * samples_per_second) \div 1000)

\* render_and_schedule, lines 82-85: the index for elapsed_ms of playback
NextIndex(offset, elapsed_ms, speed) ==
  offset + ((elapsed_ms * speed * samples_per_second) \div 1000)

\* ------------------------------------------------------------------- Init
\* The state the constructor leaves: the field initialisers, build_nav() and
\* set_stim_index(0).  my.play_started_at is not set before the first play();
\* nothing reads it before then.
Init ==
  /\ now = 0
  /\ play_started_at = 0
  /\ point_index = 0
  /\ point_index_offset = 0
  /\ playing = FALSE
  /\ playback_speed = 1
  /\ stim_index = 0
  /\ stim_name = stims[1]
  /\ gaze_len = GazeLenOf(viewdata[stims[1]])
  /\ timers = << >>
  /\ canvas = Cleared
  /\ error = "none"
  /\ session_intact = FALSE

\* ------------------------------------------------------------- operations
\* render_and_schedule() run with the fields pi (point_index), off
\* (point_index_offset), pl (playing) and started (play_started_at) as its
\* caller left them and pending as the timers still waiting.
\* A slip of lines 95-99: the offset taken after point_index has advanced.
RenderAndScheduleOffsetAfter(pi, off, pl, started, pending) ==
  LET elapsed_ms == now - started
      computed == NextIndex(off, elapsed_ms, playback_speed)
      at_end == computed >= gaze_len
      next_index == IF at_end THEN gaze_len - 1 ELSE computed
      still_playing == IF at_end THEN FALSE ELSE pl
  IN /\ playing' = still_playing
     /\ timers' = IF still_playing
                  THEN Append(pending, now + schedule_ms)
                  ELSE pending
     /\ point_index_offset' = IF still_playing THEN off ELSE next_index
     /\ canvas' = Frame(pi)
     /\ point_index' = next_index
     /\ play_started_at' = started
     /\ error' = "none"
     /\ UNCHANGED <<now, playback_speed, stim_index, stim_name, gaze_len>>

\* A slip of lines 90-91: the setTimeout left out.
RenderAndScheduleNoTimer(pi, off, pl, started, pending) ==
  LET elapsed_ms == now - started
      computed == NextIndex(off, elapsed_ms, playback_speed)
      at_end == computed >= gaze_len
      next_index == IF at_end THEN gaze_len - 1 ELSE computed
      still_playing == IF at_end THEN FALSE ELSE pl
  IN /\ playing' = still_playing
     /\ timers' = pending
     /\ point_index_offset' = IF still_playing THEN off ELSE pi
     /\ canvas' = Frame(pi)
     /\ point_index' = next_index
     /\ play_started_at' = started
     /\ error' = "none"
     /\ UNCHANGED <<now, playback_speed, stim_index, stim_name, gaze_len>>

\* render_and_schedule() run with point_index pi, point_index_offset off,
\* my.playing pl and play_started_at started, the callbacks in pending left
\* in flight.
RenderAndSchedule(pi, off, pl, started, pending) ==
  LET elapsed_ms == now - started
      computed == NextIndex(off, elapsed_ms, playback_speed)
      at_end == computed >= gaze_len
      next_index == IF at_end THEN gaze_len - 1 ELSE computed
      still_playing == IF at_end THEN FALSE ELSE pl
  IN /\ playing' = still_playing
     /\ timers' = IF still_playing
                  THEN Append(pending, now + schedule_ms)
                  ELSE pending
     /\ point_index_offset' = IF still_playing THEN off ELSE pi
     /\ canvas' = Frame(pi)
     /\ point_index' = next_index
     /\ play_started_at' = started
     /\ error' = "none"
     /\ UNCHANGED <<now, playback_speed, stim_index, stim_name, gaze_len>>

\* play(), line 33: whether play(from_start) starts over from index 0
PlayResets(from_start) == from_start \/ point_index >= gaze_len - 1

\* play(from_start); handle_play_pause_click calls it with no argument
PlayBody(from_start) ==
  /\ RenderAndSchedule(IF PlayResets(from_start) THEN 0 ELSE point_index,
                       IF PlayResets(from_start) THEN 0
                       ELSE point_index_offset,
                       TRUE, now, timers)
  /\ session_intact' = TRUE

\* pub.play(from_start)
Play(from_start) ==
  /\ Len(timers) < MaxTimers
  /\ PlayBody(from_start)

\* pub.pause(): the empty function
Pause ==
  /\ error' = "none"
  /\ UNCHANGED <<now, play_started_at, point_index, point_index_offset,
                 playing, playback_speed, stim_index, stim_name, gaze_len,
                 timers, canvas, session_intact>>

\* A slip of lines 203-207: the flag toggled, play() not called.
HandlePlayPauseClickNoPlay ==
  /\ playing' = ~playing
  /\ error' = "none"
  /\ UNCHANGED <<now, play_started_at, point_index, point_index_offset,
                 playback_speed, stim_index, stim_name, gaze_len,
                 timers, canvas, session_intact>>

\* click on the play/pause button
HandlePlayPauseClick ==
  IF ~playing
  THEN /\ Len(timers) < MaxTimers
       /\ PlayBody(FALSE)
  ELSE /\ playing' = FALSE
       /\ error' = "none"
         /\ UNCHANGED <<now, play_started_at, point_index, point_index_offset,
                      playback_speed, stim_index, stim_name, gaze_len,
                      timers, canvas, session_intact>>

\* change of the speed control to the option s
HandleSpeedChange(s) ==
  /\ playback_speed' = ParseFloat(s)
  /\ error' = "none"
  /\ UNCHANGED <<now, play_started_at, point_index, point_index_offset,
                 playing, stim_index, stim_name, gaze_len, timers, canvas,
                 session_intact>>

\* pub.set_stim_index(idx), also the click on a navigation entry.  For an
\* idx with no navigation entry select_nav_element(undefined) throws a
\* TypeError after my.stim_index has been assigned.
SetStimIndex(idx) ==
  /\ stim_index' = idx
  /\ IF idx \in 0..(Len(stims) - 1)
     THEN /\ stim_name' = stims[idx + 1]
          /\ canvas' = Cleared
          /\ point_index' = 0
          /\ point_index_offset' = 0
          /\ gaze_len' = GazeLenOf(viewdata[stims[idx + 1]])
          /\ error' = "none"
          /\ session_intact' = FALSE
     ELSE /\ error' = "TypeError"
          /\ UNCHANGED <<stim_name, canvas, point_index, point_index_offset,
                         gaze_len, session_intact>>
  /\ UNCHANGED <<now, play_started_at, playing, playback_speed, timers>>

\* pub.overdraw_all_frames()
OverdrawAllFrames ==
  /\ point_index' = IF gaze_len > 0 THEN gaze_len - 1 ELSE point_index
  /\ canvas' = Overdrawn(IF gaze_len > 0 THEN gaze_len ELSE 0)
  /\ error' = "none"
  /\ session_intact' = FALSE
  /\ UNCHANGED <<now, play_started_at, point_index_offset, playing,
                 playback_speed, stim_index, stim_name, gaze_len, timers>>

\* A pending setTimeout callback runs render_and_schedule, no earlier than
\* its delay.  All callbacks are the same function, so the earliest runs.
TimerFires ==
  /\ timers # << >>
  /\ Head(timers) <= now
  /\ RenderAndSchedule(point_index, point_index_offset, playing,
                       play_started_at, Tail(timers))
  /\ UNCHANGED session_intact

\* Wall-clock time passes between handlers.
Tick ==
  /\ now + TickMs <= MaxTime
  /\ now' = now + TickMs
  /\ UNCHANGED <<play_started_at, point_index, point_index_offset, playing,
                 playback_speed, stim_index, stim_name, gaze_len, timers,
                 canvas, error, session_intact>>

Next ==
  \/ \E from_start \in BOOLEAN : Play(from_start)
  \/ Pause
  \/ HandlePlayPauseClick
  \/ \E s \in SpeedOptions : HandleSpeedChange(s)
  \/ \E idx \in StimIndexInputs : SetStimIndex(idx)
  \/ OverdrawAllFrames
  \/ TimerFires
  \/ Tick

Spec == Init /\ [][Next]_vars

\* ------------------------------------------------ an unattended playback
\* The viewer is set up (stimulus, a positive speed, overdraw) for a while,
\* play() is called once and nothing is called afterwards: only the clock
\* and the callbacks run.  The browser runs a due callback at most MaxLate ticks
\* late, and the run is followed until no callback is left.
NotYetPlayed == ~session_intact /\ ~playing /\ timers = << >>

TickLive ==
  /\ timers # << >>
  /\ now < Head(timers) + MaxLate * TickMs
  /\ now' = now + TickMs
  /\ UNCHANGED <<play_started_at, point_index, point_index_offset, playing,
                 playback_speed, stim_index, stim_name, gaze_len, timers,
                 canvas, error, session_intact>>

NextLive ==
  \/ NotYetPlayed /\ \E from_start \in BOOLEAN : Play(from_start)
  \/ NotYetPlayed /\ \E s \in SpeedOptions :
                       ParseFloat(s) > 0 /\ HandleSpeedChange(s)
  \/ NotYetPlayed /\ \E idx \in 0..(Len(stims) - 1) : SetStimIndex(idx)
  \/ NotYetPlayed /\ OverdrawAllFrames
  \/ NotYetPlayed /\ Tick
  \/ TimerFires
  \/ TickLive

\* setTimeout callbacks that are due do run, and time does pass.
SpecLive ==
  /\ Init
  /\ [][NextLive]_vars
  /\ WF_vars(TimerFires)
  /\ WF_vars(TickLive)

TypeOK ==
  /\ now \in 0..MaxTime
  /\ play_started_at \in 0..MaxTime
  /\ point_index \in Int
  /\ point_index_offset \in Int
  /\ playing \in BOOLEAN
  /\ playback_speed \in {ParseFloat(s) : s \in SpeedOptions}
  /\ stim_index \in StimIndexInputs
  /\ stim_name \in {stims[i] : i \in 1..Len(stims)}
  /\ gaze_len = GazeLenOf(stim_data)
  /\ Len(timers) <= MaxTimers
  /\ canvas.kind \in {"clear", "frame", "overdraw"}
  /\ error \in {"none", "TypeError"}
  /\ session_intact \in BOOLEAN

\* ================================================================= claims
ValidStimIndex(idx) == idx \in 0..(Len(stims) - 1)

\* A render_and_schedule callback is pending and due: it can run in the
\* present state, and then computes the index IndexComputedNow (line 82).
CallbackDue == timers # << >> /\ Head(timers) <= now

IndexComputedNow ==
  NextIndex(point_index_offset, now - play_started_at, playback_speed)

\* C1: at most one frame-loop iteration (pending setTimeout callback of
\* render_and_schedule) is in flight in every reachable state.
C1_AtMostOneInFlight == Len(timers) <= 1

\* C2: within one play session the indices drawn by successive frame-loop
\* iterations, and the indices they store in point_index, never decrease.
\* While playing and session_intact hold, the last frame drawn (canvas) and
\* the index stored (point_index) are those of the previous iteration of the
\* session.  Stated for iterations that run with a multiplier > 0.
C2_NonDecreasing ==
  [][(playing /\ session_intact /\ playback_speed > 0 /\ TimerFires)
       => (canvas'.index >= canvas.index /\ point_index' >= point_index)]_vars

\* The value the claims give for the index an iteration stores: elapsed_ms
\* after the last play(), from the offset the iteration read.
ClaimedIndex(offset, elapsed_ms) ==
  Min(offset + ((elapsed_ms * playback_speed * samples_per_second) \div 1000),
      gaze_len - 1)

\* The offset the synchronous first iteration of play(from_start) reads.
OffsetAfterReset(from_start) ==
  IF PlayResets(from_start) THEN 0 ELSE point_index_offset

\* C3: every frame-loop iteration stores
\* min(indexOffset + floor(elapsedMs * speed * samplesPerSecond / 1000),
\* sessionLength - 1) in point_index, elapsedMs being the time since the last
\* play() and indexOffset the offset the iteration read; with 30 samples per
\* second and a session of 90 an iteration run 1000 ms after play(true)
\* stores 30 at speed 1 and twice that, 60, at speed 2.
C3_IndexFormula ==
  [][/\ TimerFires =>
          /\ point_index' =
               ClaimedIndex(point_index_offset, now - play_started_at)
          /\ (/\ now - play_started_at = 1000
              /\ point_index_offset = 0
              /\ gaze_len = 90
              /\ playback_speed \in {1, 2})
                => point_index' = 30 * playback_speed
     /\ \A from_start \in BOOLEAN :
          Play(from_start) =>
            point_index' = ClaimedIndex(OffsetAfterReset(from_start), 0)
     /\ (~playing /\ HandlePlayPauseClick) =>
            point_index' = ClaimedIndex(OffsetAfterReset(FALSE), 0)]_vars

\* C3 witness: on the 90-sample stimulus at speed 1 an iteration has run
\* 1000 ms after play(true): it drew frame 15 and stored 30.
C3_Witness ==
  /\ stim_name = "stimA"
  /\ gaze_len = 90
  /\ playback_speed = 1
  /\ playing
  /\ now - play_started_at = 1000
  /\ point_index_offset = 0
  /\ canvas = Frame(15)
  /\ point_index = 30
  /\ timers = <<now + schedule_ms>>

\* A pause that has taken effect before the end of the sequence: stopped,
\* no iteration left in flight, a frame on the canvas and point_index short
\* of the last sample (an iteration that stops at the end stores the last
\* sample; playing otherwise becomes false only by a click).
Paused ==
  /\ ~playing
  /\ session_intact
  /\ timers = << >>
  /\ canvas.kind = "frame"
  /\ point_index < gaze_len - 1

\* C4: once a pause has taken effect, point_index_offset = point_index = the
\* index of the last frame drawn, and play(false) then draws that frame
\* first and computes that index first.
C4_ResumeFromLastRendered ==
  /\ [](Paused => /\ point_index_offset = point_index
                  /\ point_index = canvas.index)
  /\ [][(Paused /\ (Play(FALSE) \/ HandlePlayPauseClick))
          => (canvas' = canvas /\ point_index' = canvas.index)]_vars

\* C5: when play(true) returns, point_index = 0, point_index_offset = 0 and
\* the frame its first iteration drew is the frame at index 0.
C5_PlayFromStartResets ==
  [][Play(TRUE) => /\ point_index' = 0
                   /\ point_index_offset' = 0
                   /\ canvas' = Frame(0)]_vars

\* C6: 0 <= point_index < gaze_len in every reachable state.
C6_IndexInRange == 0 <= point_index /\ point_index < gaze_len

\* C7: a speed change to a multiplier <= 0 fails with InvalidSpeed and
\* changes nothing, so playback_speed > 0 in every reachable state.
C7_InvalidSpeedRejected ==
  /\ [](playback_speed > 0)
  /\ [][\A s \in SpeedOptions :
          (ParseFloat(s) <= 0 /\ HandleSpeedChange(s))
            => /\ error' = "InvalidSpeed"
               /\ UNCHANGED <<playback_speed, point_index, point_index_offset,
                              playing, play_started_at, timers>>]_vars

\* C8: a speed change made while Running does not rescale the samples
\* already advanced.  Stated at the instant of the change, when no time has
\* yet elapsed under the new multiplier: the index the due iteration
\* computes when it runs right after the change is the index the old
\* multiplier yields for the time elapsed up to the change.
C8_SpeedChangeNotRetroactive ==
  [][\A s \in SpeedOptions :
       (/\ playing
        /\ session_intact
        /\ CallbackDue
        /\ playback_speed > 0
        /\ ParseFloat(s) > 0
        /\ HandleSpeedChange(s))
         => IndexComputedNow' = IndexComputedNow]_vars

\* C9: selecting a stimulus index outside [0, stimuli.length) fails with
\* InvalidIndex and leaves the state unchanged.
C9_InvalidIndexRejected ==
  [][\A idx \in StimIndexInputs :
       (~ValidStimIndex(idx) /\ SetStimIndex(idx))
         => /\ error' = "InvalidIndex"
            /\ UNCHANGED <<stim_index, stim_name, point_index,
                           point_index_offset, gaze_len, playing>>]_vars

\* C10: after selecting a valid stimulus, also while Running, it is the
\* active one, point_index = point_index_offset = 0, and the positions
\* computed afterwards start from 0: the index the due iteration computes
\* when it runs right after the selection is 0.
C10_SelectionRestartsPlayback ==
  [][\A idx \in StimIndexInputs :
       (ValidStimIndex(idx) /\ SetStimIndex(idx))
         => /\ stim_index' = idx
            /\ stim_name' = stims[idx + 1]
            /\ point_index' = 0
            /\ point_index_offset' = 0
            /\ (playing' /\ CallbackDue' /\ playback_speed' > 0)
                 => IndexComputedNow' = 0]_vars

\* C11: in every reachable state the cached gaze_len is the greatest length
\* of a point array of any viewer with data for the active stimulus, and 0
\* when no viewer has data for it; the active stimulus is the one of
\* stim_index whenever that index names one.
ActiveData == viewdata[stim_name]
C11_GazeLenIsMaxLength ==
  /\ ValidStimIndex(stim_index) => stim_name = stims[stim_index + 1]
  /\ \A v \in DOMAIN ActiveData : \A k \in DOMAIN ActiveData[v] :
       Len(ActiveData[v][k]) <= gaze_len
  /\ \/ gaze_len = 0
     \/ \E v \in DOMAIN ActiveData : \E k \in DOMAIN ActiveData[v] :
          Len(ActiveData[v][k]) = gaze_len
  /\ DOMAIN ActiveData = {} => gaze_len = 0

\* C11 happens: a stimulus with viewings of 90, 40 and 10 samples was
\* selected during playback (the canvas is cleared while Running) and its
\* length 90 is cached.
C11_Witness ==
  /\ stim_name = "stimA"
  /\ gaze_len = 90
  /\ canvas = Cleared
  /\ playing

\* C12: a frame draws no disc for a viewing that has no point at the frame's
\* index: the index is at or past gaze_len, past the end of the viewing's
\* array, or the entry there is absent. This holds of the frame on the
\* canvas, and of the indices just before 0 and just past the last sample.
ProbeIndices == {0 - 1, gaze_len, gaze_len + 1}
NoPointAt(v, k, i) ==
  \/ i >= gaze_len
  \/ i >= Len(ActiveData[v][k])
  \/ i < 0
  \/ ActiveData[v][k][i + 1] = Absent
DiscsOf(discs, v, k) == {c \in discs : c.viewer = v /\ c.viewing = k}
C12_NoPointNoDisc ==
  /\ canvas.kind = "frame" =>
       \A v \in DOMAIN ActiveData : \A k \in DOMAIN ActiveData[v] :
         NoPointAt(v, k, canvas.index) => DiscsOf(canvas.discs, v, k) = {}
  /\ \A i \in ProbeIndices :
       \A v \in DOMAIN ActiveData : \A k \in DOMAIN ActiveData[v] :
         NoPointAt(v, k, i)
           => DiscsOf(DrawCurrentPoints(ActiveData, i), v, k) = {}

\* C12 happens: the frame at index 15 is on the canvas; one viewer has a
\* point there, the other has an absent entry in one viewing and too short
\* an array in the other, and only the first viewer's disc is drawn.
C12_Witness ==
  /\ canvas.kind = "frame"
  /\ canvas.index = 15
  /\ stim_name = "stimA"
  /\ ActiveData["v2"][1][16] = Absent
  /\ Len(ActiveData["v2"][2]) < 15
  /\ Cardinality(canvas.discs) = 1

\* C13: overdraw_all_frames() draws the points of every sample index from 0
\* to gaze_len - 1 exactly once, in gaze_len draw calls, and leaves
\* point_index and point_index_offset as they were before the call.
C13_OverdrawKeepsIndices ==
  [][OverdrawAllFrames
       => /\ Len(canvas'.frames) = gaze_len
          /\ \A i \in 0..(gaze_len - 1) :
               Cardinality({j \in DOMAIN canvas'.frames :
                              canvas'.frames[j] = i}) = 1
          /\ UNCHANGED <<point_index, point_index_offset>>]_vars

\* C14: play() on a scheduler that is Running at the start (no time has
\* passed since it was started and the index is where it started) leaves
\* play_started_at, point_index, point_index_offset and the number of
\* scheduled iterations unchanged; pause() on a Stopped scheduler leaves
\* the state unchanged.
RunningAtStart ==
  /\ playing
  /\ now = play_started_at
  /\ point_index = point_index_offset
C14_PlayPauseIdempotent ==
  [][/\ \A from_start \in BOOLEAN :
          (RunningAtStart /\ Play(from_start))
            => /\ UNCHANGED <<play_started_at, point_index,
                              point_index_offset, playing>>
               /\ Len(timers') = Len(timers)
     /\ (~playing /\ Pause)
          => UNCHANGED <<play_started_at, point_index, point_index_offset,
                         playing, timers>>]_vars

\* C15: pause() requested while Running, by pub.pause or by the play/pause
\* button, sets the state to Stopped and leaves point_index and
\* point_index_offset unchanged, and they keep those values while the
\* scheduler stays Stopped, whatever callback still runs.
C15_PauseStopsAndKeepsIndices ==
  [][/\ (playing /\ (Pause \/ HandlePlayPauseClick))
          => /\ ~playing'
             /\ UNCHANGED <<point_index, point_index_offset>>
     /\ (~playing /\ session_intact /\ TimerFires)
          => UNCHANGED <<point_index, point_index_offset>>]_vars

\* C16: an iteration that computes an index at or past gaze_len stores
\* gaze_len - 1 in point_index, sets the state to Stopped, sets
\* point_index_offset to the index point_index had before the iteration,
\* which is the frame it draws, and schedules no further iteration.
ComputedRaw(offset, elapsed_ms) ==
  offset + ((elapsed_ms * playback_speed * samples_per_second) \div 1000)
IndexBeforePlay(from_start) ==
  IF PlayResets(from_start) THEN 0 ELSE point_index
C16_StopAtEnd ==
  [][/\ (/\ TimerFires
         /\ ComputedRaw(point_index_offset, now - play_started_at)
              >= gaze_len)
          => /\ point_index' = gaze_len - 1
             /\ ~playing'
             /\ point_index_offset' = point_index
             /\ canvas'.frames = <<point_index>>
             /\ timers' = Tail(timers)
     /\ \A from_start \in BOOLEAN :
          (/\ Play(from_start)
           /\ ComputedRaw(OffsetAfterReset(from_start), 0) >= gaze_len)
            => /\ point_index' = gaze_len - 1
               /\ ~playing'
               /\ point_index_offset' = IndexBeforePlay(from_start)
               /\ canvas'.frames = <<IndexBeforePlay(from_start)>>
               /\ timers' = timers]_vars

\* C16 happens: at double speed the iteration 1500 ms after play(true)
\* computed 90 on the 90-sample stimulus, drew frame 60 and stopped.
C16_Witness ==
  /\ stim_name = "stimA"
  /\ ~playing
  /\ playback_speed = 2
  /\ now - play_started_at = 3 * schedule_ms
  /\ point_index = gaze_len - 1
  /\ point_index_offset = 60
  /\ canvas.frames = <<60>>
  /\ timers = << >>

\* C17: once a pause has set the state to Stopped, a frame-loop iteration
\* that runs before the next play() draws no frame, leaves point_index
\* unchanged and schedules no iteration.
C17_PauseTakesEffect ==
  [][(~playing /\ session_intact /\ Len(timers) = 1 /\ TimerFires)
       => /\ canvas' = canvas
          /\ point_index' = point_index
          /\ timers' = << >>]_vars

\* C18: every iteration draws the frame at the point_index held before it
\* advances, and the first frame drawn by a play() that starts a session
\* (from the start, after a pause, after the end) is the frame at
\* point_index_offset: point_index = point_index_offset when it draws.
C18_FirstFrameAtOffset ==
  [][/\ TimerFires => canvas'.frames = <<point_index>>
     /\ \A from_start \in BOOLEAN :
          (~playing /\ Play(from_start))
            => /\ canvas'.frames = <<IndexBeforePlay(from_start)>>
               /\ IndexBeforePlay(from_start) = OffsetAfterReset(from_start)
     /\ (~playing /\ HandlePlayPauseClick)
          => /\ canvas'.frames = <<IndexBeforePlay(FALSE)>>
             /\ IndexBeforePlay(FALSE) = OffsetAfterReset(FALSE)]_vars

\* C19: whenever no handler is executing and my.playing is true, at least
\* one frame-loop iteration is scheduled.
C19_RunningHasTimer == playing => timers # << >>

\* C19 happens: a play() or a resume arrived some time after construction
\* while an earlier callback was still pending, time went on, and playback
\* is Running with two iterations scheduled.
C19_Witness ==
  /\ playing
  /\ Len(timers) = 2
  /\ now > play_started_at
  /\ play_started_at > 0
  /\ canvas.kind = "frame"

\* C20: once play() has been called with a positive speed and nothing is
\* called afterwards, while time passes and due callbacks run, playback
\* eventually is Stopped with point_index = gaze_len - 1 and no iteration
\* left scheduled.
StoppedAtEnd ==
  /\ ~playing
  /\ point_index = gaze_len - 1
  /\ timers = << >>
C20_EventuallyStopped ==
  (session_intact /\ playback_speed > 0) ~> StoppedAtEnd

\* C20 happens: the 90-sample stimulus was played at speed 1 to its end,
\* which takes at least 3000 ms, and nothing is left scheduled.
C20_Witness ==
  /\ session_intact
  /\ StoppedAtEnd
  /\ stim_name = "stimA"
  /\ playback_speed = 1
  /\ now - play_started_at >= 6 * schedule_ms
  /\ canvas.kind = "frame"

====
